---- MODULE Spec2Model ----
(***************************************************************************)
(* Model of docs/source/conf.py: a Sphinx configuration module.  Loading   *)
(* the file executes its module-level statements one after another in a    *)
(* namespace; every statement is an assignment of a literal to a name.     *)
(*                                                                         *)
(* A load is identified by a label; the variables are functions over the   *)
(* labels of the loads in progress, so that two independent loads can be   *)
(* compared.  Mutable Python objects (list and dict displays) live in a    *)
(* per-load heap and are referred to by identity.                          *)
(***************************************************************************)
EXTENDS Integers, Sequences, FiniteSets, TLC

VARIABLES pc, done, ns, heap, count, steps

vars == <<pc, done, ns, heap, count, steps>>

(* ---------------------------------------------------------------------- *)
(* Bounds                                                                  *)
(* ---------------------------------------------------------------------- *)

\* number of distinct values a name may hold before the load starts
MaxPre == 2

(* ---------------------------------------------------------------------- *)
(* Python values                                                           *)
(* ---------------------------------------------------------------------- *)

Unbound == [kind |-> "unbound", str |-> "", id |-> 0]

None == [kind |-> "NoneType", str |-> "", id |-> 0]

Str(s) == [kind |-> "str", str |-> s, id |-> 0]

Ref(i) == [kind |-> "ref", str |-> "", id |-> i]

\* an opaque value left in the namespace by whoever started the load
Pre(n) == [kind |-> "pre", str |-> "", id |-> n]

(* ---------------------------------------------------------------------- *)
(* Expressions of conf.py: literals only                                   *)
(* ---------------------------------------------------------------------- *)

StrLit(s) == [op |-> "str", s |-> s, elts |-> <<>>]

NoneLit == [op |-> "none", s |-> "", elts |-> <<>>]

ListLit(elts) == [op |-> "list", s |-> "", elts |-> elts]

DictLit == [op |-> "dict", s |-> "", elts |-> <<>>]

Assign(line, target, value) == [line |-> line, target |-> target, value |-> value]

\* conf.py with "html_favicon" misspelt
ProgramMisspeltKey ==
  << Assign(2,  "project",            StrLit("Multi-Stage Verification")),
     Assign(3,  "author",             StrLit("Gus Smith")),
     Assign(4,  "copyright",          StrLit("")),
     Assign(6,  "templates_path",     ListLit(<<StrLit("_templates")>>)),
     Assign(7,  "html_theme",         StrLit("furo")),
     Assign(8,  "html_static_path",   ListLit(<<StrLit("_static"), StrLit("media")>>)),
     Assign(10, "html_logo",          NoneLit),
     Assign(11, "html_favico",        NoneLit),
     Assign(12, "html_css_files",     ListLit(<<>>)),
     Assign(14, "pygments_style",     StrLit("colorful")),
     Assign(15, "highlight_language", StrLit("text")),
     Assign(17, "html_theme_options", DictLit),
     Assign(18, "extensions",         ListLit(<<StrLit("sphinx.ext.autosectionlabel")>>)) >>

\* conf.py with line 11 assigning html_logo a second time
ProgramReassign ==
  << Assign(2,  "project",            StrLit("Multi-Stage Verification")),
     Assign(3,  "author",             StrLit("Gus Smith")),
     Assign(4,  "copyright",          StrLit("")),
     Assign(6,  "templates_path",     ListLit(<<StrLit("_templates")>>)),
     Assign(7,  "html_theme",         StrLit("furo")),
     Assign(8,  "html_static_path",   ListLit(<<StrLit("_static"), StrLit("media")>>)),
     Assign(10, "html_logo",          NoneLit),
     Assign(11, "html_logo",          StrLit("_static/logo.png")),
     Assign(11, "html_favicon",       NoneLit),
     Assign(12, "html_css_files",     ListLit(<<>>)),
     Assign(14, "pygments_style",     StrLit("colorful")),
     Assign(15, "highlight_language", StrLit("text")),
     Assign(17, "html_theme_options", DictLit),
     Assign(18, "extensions",         ListLit(<<StrLit("sphinx.ext.autosectionlabel")>>)) >>

\* conf.py with extensions given as a bare string
ProgramWrongShape ==
  << Assign(2,  "project",            StrLit("Multi-Stage Verification")),
     Assign(3,  "author",             StrLit("Gus Smith")),
     Assign(4,  "copyright",          StrLit("")),
     Assign(6,  "templates_path",     ListLit(<<StrLit("_templates")>>)),
     Assign(7,  "html_theme",         StrLit("furo")),
     Assign(8,  "html_static_path",   ListLit(<<StrLit("_static"), StrLit("media")>>)),
     Assign(10, "html_logo",          NoneLit),
     Assign(11, "html_favicon",       NoneLit),
     Assign(12, "html_css_files",     ListLit(<<>>)),
     Assign(14, "pygments_style",     StrLit("colorful")),
     Assign(15, "highlight_language", StrLit("text")),
     Assign(17, "html_theme_options", DictLit),
     Assign(18, "extensions",         StrLit("sphinx.ext.autosectionlabel")) >>

\* conf.py activating a second extension
ProgramTwoExtensions ==
  << Assign(2,  "project",            StrLit("Multi-Stage Verification")),
     Assign(3,  "author",             StrLit("Gus Smith")),
     Assign(4,  "copyright",          StrLit("")),
     Assign(6,  "templates_path",     ListLit(<<StrLit("_templates")>>)),
     Assign(7,  "html_theme",         StrLit("furo")),
     Assign(8,  "html_static_path",   ListLit(<<StrLit("_static"), StrLit("media")>>)),
     Assign(10, "html_logo",          NoneLit),
     Assign(11, "html_favicon",       NoneLit),
     Assign(12, "html_css_files",     ListLit(<<>>)),
     Assign(14, "pygments_style",     StrLit("colorful")),
     Assign(15, "highlight_language", StrLit("text")),
     Assign(17, "html_theme_options", DictLit),
     Assign(18, "extensions",         ListLit(<<StrLit("sphinx.ext.autosectionlabel"),
                                                StrLit("sphinx.ext.todo")>>)) >>

\* conf.py with the assignment of project (line 2) left out
ProgramNoProject ==
  << Assign(3,  "author",             StrLit("Gus Smith")),
     Assign(4,  "copyright",          StrLit("")),
     Assign(6,  "templates_path",     ListLit(<<StrLit("_templates")>>)),
     Assign(7,  "html_theme",         StrLit("furo")),
     Assign(8,  "html_static_path",   ListLit(<<StrLit("_static"), StrLit("media")>>)),
     Assign(10, "html_logo",          NoneLit),
     Assign(11, "html_favicon",       NoneLit),
     Assign(12, "html_css_files",     ListLit(<<>>)),
     Assign(14, "pygments_style",     StrLit("colorful")),
     Assign(15, "highlight_language", StrLit("text")),
     Assign(17, "html_theme_options", DictLit),
     Assign(18, "extensions",         ListLit(<<StrLit("sphinx.ext.autosectionlabel")>>)) >>

\* conf.py with a second, different theme assignment on the blank line 5
ProgramThemeTwice ==
  << Assign(2,  "project",            StrLit("Multi-Stage Verification")),
     Assign(3,  "author",             StrLit("Gus Smith")),
     Assign(4,  "copyright",          StrLit("")),
     Assign(5,  "html_theme",         StrLit("alabaster")),
     Assign(6,  "templates_path",     ListLit(<<StrLit("_templates")>>)),
     Assign(7,  "html_theme",         StrLit("furo")),
     Assign(8,  "html_static_path",   ListLit(<<StrLit("_static"), StrLit("media")>>)),
     Assign(10, "html_logo",          NoneLit),
     Assign(11, "html_favicon",       NoneLit),
     Assign(12, "html_css_files",     ListLit(<<>>)),
     Assign(14, "pygments_style",     StrLit("colorful")),
     Assign(15, "highlight_language", StrLit("text")),
     Assign(17, "html_theme_options", DictLit),
     Assign(18, "extensions",         ListLit(<<StrLit("sphinx.ext.autosectionlabel")>>)) >>

\* conf.py with a further setting appended after line 18
ProgramExtraLine ==
  << Assign(2,  "project",            StrLit("Multi-Stage Verification")),
     Assign(3,  "author",             StrLit("Gus Smith")),
     Assign(4,  "copyright",          StrLit("")),
     Assign(6,  "templates_path",     ListLit(<<StrLit("_templates")>>)),
     Assign(7,  "html_theme",         StrLit("furo")),
     Assign(8,  "html_static_path",   ListLit(<<StrLit("_static"), StrLit("media")>>)),
     Assign(10, "html_logo",          NoneLit),
     Assign(11, "html_favicon",       NoneLit),
     Assign(12, "html_css_files",     ListLit(<<>>)),
     Assign(14, "pygments_style",     StrLit("colorful")),
     Assign(15, "highlight_language", StrLit("text")),
     Assign(17, "html_theme_options", DictLit),
     Assign(18, "extensions",         ListLit(<<StrLit("sphinx.ext.autosectionlabel")>>)),
     Assign(19, "extensions",         ListLit(<<StrLit("sphinx.ext.autosectionlabel")>>)) >>

\* The module-level statements of conf.py, in file order.  Line 1 is a
\* comment and lines 5, 9, 13, 16, 19 are blank.
Program ==
  << Assign(2,  "project",            StrLit("Multi-Stage Verification")),
     Assign(3,  "author",             StrLit("Gus Smith")),
     Assign(4,  "copyright",          StrLit("")),
     Assign(6,  "templates_path",     ListLit(<<StrLit("_templates")>>)),
     Assign(7,  "html_theme",         StrLit("furo")),
     Assign(8,  "html_static_path",   ListLit(<<StrLit("_static"), StrLit("media")>>)),
     Assign(10, "html_logo",          NoneLit),
     Assign(11, "html_favicon",       NoneLit),
     Assign(12, "html_css_files",     ListLit(<<>>)),
     Assign(14, "pygments_style",     StrLit("colorful")),
     Assign(15, "highlight_language", StrLit("text")),
     Assign(17, "html_theme_options", DictLit),
     Assign(18, "extensions",         ListLit(<<StrLit("sphinx.ext.autosectionlabel")>>)) >>

\* the names some statement of the file assigns
Targets == {Program[i].target : i \in DOMAIN Program}

\* names that may already be bound when the load starts: two that the file
\* assigns and one that it does not
PreNames == {"project", "extensions", "tags"}

Names == Targets \cup PreNames

(* ---------------------------------------------------------------------- *)
(* Evaluation                                                              *)
(* ---------------------------------------------------------------------- *)

\* a string or None literal evaluates to an immutable value
EvalAtom(e) == IF e.op = "str" THEN Str(e.s) ELSE None

\* a list or dict display builds a new object
NewObject(e) ==
  IF e.op = "list"
    THEN [type |-> "list", items |-> [i \in DOMAIN e.elts |-> EvalAtom(e.elts[i])]]
    ELSE [type |-> "dict", items |-> <<>>]

IsDisplay(e) == e.op \in {"list", "dict"}

\* Evaluating an expression in heap h gives a value and the heap after it:
\* a display allocates a fresh object and yields a reference to it.
Eval(e, h) ==
  IF IsDisplay(e)
    THEN [val |-> Ref(Len(h) + 1), heap |-> Append(h, NewObject(e))]
    ELSE [val |-> EvalAtom(e), heap |-> h]

\* the object or immutable value a namespace entry stands for
Deref(v, h) ==
  IF v.kind = "ref"
    THEN [kind |-> h[v.id].type, str |-> "", tag |-> 0, items |-> h[v.id].items]
    ELSE [kind |-> v.kind, str |-> v.str, tag |-> v.id, items |-> <<>>]

(* ---------------------------------------------------------------------- *)
(* Loading                                                                 *)
(* ---------------------------------------------------------------------- *)

PreValues == {Unbound} \cup {Pre(n) : n \in 1..MaxPre}

\* a namespace as the load finds it
InitialNamespaces ==
  {[n \in Names |-> IF n \in PreNames THEN f[n] ELSE Unbound] : f \in [PreNames -> PreValues]}

InitLoads(L) ==
  /\ pc = [l \in L |-> 1]
  /\ done = [l \in L |-> {}]
  /\ ns \in [L -> InitialNamespaces]
  /\ heap = [l \in L |-> <<>>]
  /\ count = [l \in L |-> [n \in Names |-> 0]]
  /\ steps = [l \in L |-> 0]

Loaded(l) == done[l] = DOMAIN Program

\* Execute statement i of load l: evaluate the right-hand side and bind the
\* target.
Exec(l, i) ==
  LET st == Program[i]
      r  == Eval(st.value, heap[l])
  IN /\ ns' = [ns EXCEPT ![l][st.target] = r.val]
     /\ heap' = [heap EXCEPT ![l] = r.heap]
     /\ count' = [count EXCEPT ![l][st.target] = @ + 1]
     /\ steps' = [steps EXCEPT ![l] = @ + 1]
     /\ done' = [done EXCEPT ![l] = @ \cup {i}]

\* the interpreter runs the statement at pc and moves to the one after it
Step(l) ==
  /\ pc[l] \in DOMAIN Program
  /\ Exec(l, pc[l])
  /\ pc' = [pc EXCEPT ![l] = @ + 1]

\* the statements taken in an arbitrary order, each once
StepAny(l) ==
  /\ \E i \in DOMAIN Program \ done[l] : Exec(l, i)
  /\ UNCHANGED pc

\* one load of conf.py
Init == InitLoads({"A"})

Next == \E l \in DOMAIN pc : Step(l)

Spec == Init /\ [][Next]_vars

\* the interpreter keeps running the file until its end
FairSpec == Spec /\ WF_vars(Next)

\* two independent loads of conf.py
InitPair == InitLoads({"A", "B"})

SpecPair == InitPair /\ [][Next]_vars

\* one load with the statements permuted
NextAny == \E l \in DOMAIN pc : StepAny(l)

SpecAnyOrder == Init /\ [][NextAny]_vars


\* the whole file run in the order written, from namespace n and heap h
RECURSIVE Run(_, _, _)
Run(i, n, h) ==
  IF i > Len(Program)
    THEN [ns |-> n, heap |-> h]
    ELSE LET r == Eval(Program[i].value, h)
         IN Run(i + 1, [n EXCEPT ![Program[i].target] = r.val], r.heap)

(* ---------------------------------------------------------------------- *)
(* Properties                                                              *)
(* ---------------------------------------------------------------------- *)

\* the configuration keys the documentation generator reads
Keys ==
  {"project", "author", "copyright", "templates_path", "html_theme",
   "html_static_path", "html_logo", "html_favicon", "html_css_files",
   "pygments_style", "highlight_language", "html_theme_options", "extensions"}

Loads == DOMAIN pc

\* the value bound to name n in load l, objects looked up in the heap
Value(l, n) == Deref(ns[l][n], heap[l])

IsStr(v) == v.kind = "str"

IsStrList(v) == v.kind = "list" /\ \A i \in DOMAIN v.items : v.items[i].kind = "str"

\* C1: once the load is complete, the names the file has bound are exactly
\* the thirteen configuration keys: each key is bound, and any other name
\* holds only what it held before the load.
C1_ExactlyTheKeys ==
  \A l \in Loads :
    Loaded(l) =>
      /\ {n \in Names : count[l][n] > 0} = Keys
      /\ \A k \in Keys : ns[l][k].kind \notin {"unbound", "pre"}
      /\ \A n \in Names \ Keys : ns[l][n].kind \in {"unbound", "pre"}

\* a complete load in a namespace that already held another name
C1_Witness ==
  /\ Loaded("A")
  /\ ns["A"]["tags"].kind = "pre"
  /\ ns["A"]["html_favicon"] = None

\* C2: every key is assigned exactly once in a load, and from the step that
\* binds it on, the key stays bound and its value stays the same.
C2_BoundOnceNeverChanged ==
  /\ [](\A l \in Loads : \A n \in Names :
          /\ count[l][n] <= 1
          /\ (Loaded(l) /\ n \in Keys) => count[l][n] = 1)
  /\ [][\A l \in Loads : \A k \in Keys :
          count[l][k] > 0 =>
            /\ count'[l][k] = count[l][k]
            /\ ns'[l][k] = ns[l][k]
            /\ ns'[l][k] # Unbound
            /\ Deref(ns'[l][k], heap'[l]) = Value(l, k)]_vars

\* project has been bound over an earlier value and later statements have run
C2_Witness ==
  /\ count["A"]["project"] = 1
  /\ ns["A"]["project"] = Str("Multi-Stage Verification")
  /\ steps["A"] >= 6
  /\ count["A"]["templates_path"] = 1
  /\ ~Loaded("A")

\* C3: after the load, each key holds a value of its declared shape.
C3_Shapes ==
  \A l \in Loads :
    Loaded(l) =>
      /\ \A k \in {"project", "author", "copyright", "html_theme",
                   "pygments_style", "highlight_language"} : IsStr(Value(l, k))
      /\ \A k \in {"templates_path", "html_static_path", "html_css_files",
                   "extensions"} : IsStrList(Value(l, k))
      /\ \A k \in {"html_logo", "html_favicon"} :
           Value(l, k).kind = "NoneType" \/ IsStr(Value(l, k))
      /\ Value(l, "html_theme_options").kind = "dict"

\* a complete load: a two-element list, an empty list and a null are in place
C3_Witness ==
  /\ Loaded("A")
  /\ Len(Value("A", "html_static_path").items) = 2
  /\ Len(Value("A", "html_css_files").items) = 0
  /\ Value("A", "html_logo").kind = "NoneType"

\* C4: extensions never holds more than one element, and after the load it
\* is a list of exactly one extension.
C4_SingleExtension ==
  \A l \in Loads :
    /\ Len(Value(l, "extensions").items) <= 1
    /\ count[l]["extensions"] > 0 => Len(Value(l, "extensions").items) = 1
    /\ Loaded(l) =>
         /\ count[l]["extensions"] > 0
         /\ Value(l, "extensions").kind = "list"
         /\ Value(l, "extensions").items = <<Str("sphinx.ext.autosectionlabel")>>

\* line 18 has run and extensions refers to a list object
C4_Witness ==
  /\ Loaded("A")
  /\ ns["A"]["extensions"].kind = "ref"
  /\ Len(heap["A"][ns["A"]["extensions"].id].items) = 1

\* C5: the load terminates; it is complete exactly when thirteen
\* assignments have run, and then no further step is enabled.
C5_Terminates ==
  /\ <>(\A l \in Loads : Loaded(l))
  /\ [](\A l \in Loads :
          /\ Loaded(l) <=> steps[l] = 13
          /\ steps[l] = Cardinality(done[l])
          /\ Loaded(l) => ~ENABLED Step(l))

\* the load is complete after thirteen steps and the interpreter is past
\* the last statement
C5_Witness ==
  /\ Loaded("A")
  /\ steps["A"] = 13
  /\ pc["A"] = Len(Program) + 1

\* C6: two complete loads agree on every configuration key, whatever the
\* namespaces they started from.
C6_Deterministic ==
  (Loaded("A") /\ Loaded("B")) =>
    \A k \in Keys : Value("A", k) = Value("B", k)

\* two complete loads whose namespaces differ in a name the file leaves alone
C6_Witness ==
  /\ Loaded("A")
  /\ Loaded("B")
  /\ ns["A"]["tags"] # ns["B"]["tags"]
  /\ Value("A", "extensions").kind = "list"

\* C7: the assignments run in any order leave every key with the value the
\* file order gives it, and no two keys refer to the same object.
C7_Commute ==
  \A l \in Loads :
    Loaded(l) =>
      /\ LET r == Run(1, [n \in Names |-> Unbound], <<>>)
         IN \A k \in Keys : Value(l, k) = Deref(r.ns[k], r.heap)
      /\ \A j, k \in Keys :
           (j # k /\ ns[l][j].kind = "ref") => ns[l][j] # ns[l][k]

\* a complete load in which line 18 ran before every other list or dict
\* display and line 6 after all of them
C7_Witness ==
  /\ Loaded("A")
  /\ ns["A"]["extensions"] = Ref(1)
  /\ ns["A"]["templates_path"] = Ref(5)

====
